---- MODULE Spec2Model ----
(***************************************************************************)
(* Rental lifecycle, availability-conflict check and charge computation of *)
(* the vehicle-rental REST API (controllers/rentalController.js and the    *)
(* vehicle / maintenance handlers that move a vehicle's status).           *)
(*                                                                         *)
(* Time is counted in ticks of half a day (TicksPerDay = 2), so that the   *)
(* Math.ceil of a day count is not the identity.  Money is counted in      *)
(* cents, the scale of the DECIMAL(10, 2) columns.                         *)
(***************************************************************************)
EXTENDS Integers, Sequences, FiniteSets, TLC

VARIABLES
  vehicles,      \* table vehicles: id -> row
  customers,     \* table customers: id -> row
  rentals,       \* table rentals, in creation order; a rental's id is its index
  maintenances,  \* table maintenances, in creation order
  response,      \* the last response sent: the handler, the HTTP code, its data
  reqs,          \* in-flight createRental requests (interleaved execution only)
  users          \* table users: id -> row

vars == <<vehicles, customers, rentals, maintenances, response, reqs, users>>

----------------------------------------------------------------------------
(* Bounds of the model *)

\* the last booking date, in ticks
MaxDate == 3
\* the last booking and return date of the billed rental, in ticks
MaxReturnDate == 12
MaxMileage == 1

(* Identifiers and input values *)

Vehicles == {"v1", "v2"}
Customers == {"c1"}
Users == {"u1", "u2", "u3"}
UnknownId == "none"
Dates == 0..MaxDate
ReturnDates == 0..MaxReturnDate
Mileages == 0..MaxMileage

RentalStatuses == {"reserved", "confirmed", "active", "completed", "cancelled"}
LiveStatuses == {"reserved", "confirmed", "active"}
TerminalStatuses == {"completed", "cancelled"}
VehicleStatuses == {"available", "rented", "maintenance", "inactive"}

----------------------------------------------------------------------------
(* Program constants *)

TicksPerDay == 2
TaxPercent == 19
LateFeeNum == 3
LateFeeDen == 2
NaN == -1

----------------------------------------------------------------------------
(* JavaScript objects: a request body is a function whose domain is the set *)
(* of the fields it carries.                                                *)

Has(obj, f) == f \in DOMAIN obj

\* obj.f || dflt  (undefined and 0 are both falsy)
OrElse(obj, f, dflt) == IF Has(obj, f) /\ obj[f] # 0 THEN obj[f] ELSE dflt

\* the column default of an attribute that the values do not carry
WithDefault(obj, f, dflt) == IF Has(obj, f) THEN obj[f] ELSE dflt

\* Math.ceil(n / d) for d > 0
Ceil(n, d) == -((-n) \div d)

\* n / d rounded to the nearest integer (the DECIMAL(10, 2) column keeps cents)
RoundDiv(n, d) == (2 * n + d) \div (2 * d)

----------------------------------------------------------------------------
(* Values as the handlers see them.  The driver hands a DECIMAL column back *)
(* as a string ("200.00"); a JSON body carries numbers.  A JavaScript value *)
(* is modelled as a number, or as a string made of the numeric literals     *)
(* that were concatenated into it.                                          *)

JsNum(n) == [t |-> "number", v |-> n]
JsStr(parts) == [t |-> "string", v |-> parts]

\* the value read from a DECIMAL(10, 2) attribute of a fetched row
DbDecimal(cents) == JsStr(<<cents>>)

JsParts(x) == IF x.t = "string" THEN x.v ELSE <<x.v>>

\* Number(x): a string holding one literal converts; the handlers build no
\* other string than a concatenation that starts with two DECIMAL literals,
\* which has two decimal points and is not a number
ToNumber(x) == IF x.t = "number" THEN x.v
               ELSE IF Len(x.v) = 1 THEN x.v[1] ELSE NaN

\* a + b: numeric addition of two numbers, string concatenation otherwise
JsPlus(a, b) ==
  IF a.t = "number" /\ b.t = "number"
  THEN JsNum(IF a.v = NaN \/ b.v = NaN THEN NaN ELSE a.v + b.v)
  ELSE JsStr(JsParts(a) \o JsParts(b))

\* a - b: both operands are converted to numbers
JsMinus(a, b) ==
  LET x == ToNumber(a)
      y == ToNumber(b)
  IN JsNum(IF x = NaN \/ y = NaN THEN NaN ELSE x - y)

----------------------------------------------------------------------------
(* Persistence layer *)

FindByPk(table, id) == IF id \in DOMAIN table THEN {table[id]} ELSE {}

\* validate: { min: 0 } of the model attributes; NaN passes a min validator
MinZero(x) == x = NaN \/ x >= 0

\* variant of the date condition that lacks its third branch (an existing
\* rental that spans the whole requested period)
DatesConflictTwoBranches(r, start_date, end_date) ==
  \/ (start_date <= r.start_date /\ r.start_date <= end_date)
  \/ (start_date <= r.end_date /\ r.end_date <= end_date)

\* variant of the date condition whose bounds are exclusive
DatesConflictExclusive(r, start_date, end_date) ==
  \/ (start_date < r.start_date /\ r.start_date < end_date)
  \/ (start_date < r.end_date /\ r.end_date < end_date)
  \/ (r.start_date <= start_date /\ r.end_date >= end_date)

\* the three-branch date condition of the conflict query
DatesConflict(r, start_date, end_date) ==
  \/ (start_date <= r.start_date /\ r.start_date <= end_date)
  \/ (start_date <= r.end_date /\ r.end_date <= end_date)
  \/ (r.start_date <= start_date /\ r.end_date >= end_date)

\* variant of the conflict query that does not count reserved rentals
ConflictingRentalsBeyondReserved(table, vehicle_id, start_date, end_date) ==
  Cardinality({i \in DOMAIN table :
                 /\ table[i].vehicle_id = vehicle_id
                 /\ table[i].rental_status \in {"confirmed", "active"}
                 /\ DatesConflict(table[i], start_date, end_date)})

\* Rental.count({ where: { vehicle_id, rental_status in live, dates conflict } })
ConflictingRentals(table, vehicle_id, start_date, end_date) ==
  Cardinality({i \in DOMAIN table :
                 /\ table[i].vehicle_id = vehicle_id
                 /\ table[i].rental_status \in LiveStatuses
                 /\ DatesConflict(table[i], start_date, end_date)})

\* variant of the count of live rentals that counts the active ones only
ActiveRentalsPickedUp(table, key, id) ==
  Cardinality({i \in DOMAIN table :
                 table[i][key] = id /\ table[i].rental_status = "active"})

\* Rental.count({ where: { <key>: id, rental_status in live } })
ActiveRentals(table, key, id) ==
  Cardinality({i \in DOMAIN table :
                 table[i][key] = id /\ table[i].rental_status \in LiveStatuses})

\* the validators Rental.create runs before the beforeCreate hook
RentalValid(row, values) ==
  /\ Has(values, "rental_number")
  /\ row.total_days >= 1
  /\ MinZero(row.daily_rate) /\ MinZero(row.subtotal) /\ MinZero(row.tax_amount)
  /\ MinZero(row.additional_charges) /\ MinZero(row.discount_amount)
  /\ MinZero(row.total_amount)

\* res.status(code).json({ success, message, data })
Respond(op, code, message, id, data) ==
  response' = [op |-> op, code |-> code, message |-> message, id |-> id, data |-> data]

----------------------------------------------------------------------------
(* Rental engine: controllers/rentalController.js *)

\* Math.ceil((endDate - startDate) / (1000 * 60 * 60 * 24))
TotalDays(start_date, end_date) == Ceil(end_date - start_date, TicksPerDay)

\* the values createRental hands to Rental.create, as the row they become
NewRental(body, vehicle) ==
  LET totalDays == TotalDays(body.start_date, body.end_date)
      subtotal == totalDays * vehicle.daily_rate
      \* subtotal * 0.19, in hundredths of a cent
      tax100 == subtotal * TaxPercent
      total100 == 100 * subtotal + tax100
                    + 100 * OrElse(body, "additional_charges", 0)
                    - 100 * OrElse(body, "discount_amount", 0)
  IN [customer_id |-> body.customer_id,
      vehicle_id |-> body.vehicle_id,
      start_date |-> body.start_date,
      end_date |-> body.end_date,
      rental_status |-> WithDefault(body, "rental_status", "reserved"),
      daily_rate |-> vehicle.daily_rate,
      total_days |-> totalDays,
      subtotal |-> subtotal,
      tax_amount |-> RoundDiv(tax100, 100),
      additional_charges |-> WithDefault(body, "additional_charges", 0),
      discount_amount |-> WithDefault(body, "discount_amount", 0),
      total_amount |-> RoundDiv(total100, 100),
      pickup_mileage |-> {},
      return_mileage |-> {},
      fuel_level_pickup |-> "full"]

\* variant of the vehicle test that looks at the active flag only
NotAvailableIgnoringStatus(vehicle) ==
  vehicle = {} \/ (\E v \in vehicle : ~v.is_active)

\* !vehicle || !vehicle.is_active || vehicle.status !== 'available'
NotAvailable(vehicle) ==
  vehicle = {} \/ (\E v \in vehicle : ~v.is_active \/ v.status # "available")

createRental(body) ==
  LET customer == FindByPk(customers, body.customer_id)
      vehicle == FindByPk(vehicles, body.vehicle_id)
  IN IF customer = {} \/ (\E c \in customer : ~c.is_active)
     THEN /\ Respond("createRental", 400, "Cliente no encontrado o inactivo", 0, <<>>)
          /\ UNCHANGED <<vehicles, customers, rentals, maintenances, reqs, users>>
     ELSE IF NotAvailable(vehicle)
     THEN /\ Respond("createRental", 400, "Vehiculo no disponible", 0, <<>>)
          /\ UNCHANGED <<vehicles, customers, rentals, maintenances, reqs, users>>
     ELSE IF ConflictingRentals(rentals, body.vehicle_id,
                                body.start_date, body.end_date) > 0
     THEN /\ Respond("createRental", 400, "El vehiculo ya tiene reservas en las fechas seleccionadas", 0, <<>>)
          /\ UNCHANGED <<vehicles, customers, rentals, maintenances, reqs, users>>
     ELSE LET row == NewRental(body, vehicles[body.vehicle_id])
          IN IF ~RentalValid(row, body)
             THEN \* Rental.create throws: the catch block answers 500
                  /\ Respond("createRental", 500, "Error interno del servidor", 0, <<>>)
                  /\ UNCHANGED <<vehicles, customers, rentals, maintenances, reqs, users>>
             ELSE /\ rentals' = Append(rentals, row)
                  /\ vehicles' = [vehicles EXCEPT ![body.vehicle_id].status = "rented"]
                  /\ Respond("createRental", 201, "Alquiler creado exitosamente", Len(rentals) + 1, <<>>)
                  /\ UNCHANGED <<customers, maintenances, reqs, users>>

\* rental.update(updateData): the attributes the body carries are overwritten
PatchRental(row, body) ==
  [f \in DOMAIN row |-> IF Has(body, f) THEN body[f] ELSE row[f]]

\* variant of updateRental without the guard on completed and cancelled rentals
updateRentalUnguarded(id, body) ==
  IF id \notin DOMAIN rentals
  THEN /\ Respond("updateRental", 404, "Alquiler no encontrado", id, <<>>)
       /\ UNCHANGED <<vehicles, customers, rentals, maintenances, reqs, users>>
  ELSE /\ rentals' = [rentals EXCEPT ![id] = PatchRental(@, body)]
       /\ Respond("updateRental", 200, "Alquiler actualizado exitosamente", id, <<>>)
       /\ UNCHANGED <<vehicles, customers, maintenances, reqs, users>>

updateRental(id, body) ==
  IF id \notin DOMAIN rentals
  THEN /\ Respond("updateRental", 404, "Alquiler no encontrado", id, <<>>)
       /\ UNCHANGED <<vehicles, customers, rentals, maintenances, reqs, users>>
  ELSE IF rentals[id].rental_status \in {"completed", "cancelled"}
  THEN /\ Respond("updateRental", 400, "No se puede modificar un alquiler completado o cancelado", id, <<>>)
       /\ UNCHANGED <<vehicles, customers, rentals, maintenances, reqs, users>>
  ELSE /\ rentals' = [rentals EXCEPT ![id] = PatchRental(@, body)]
       /\ Respond("updateRental", 200, "Alquiler actualizado exitosamente", id, <<>>)
       /\ UNCHANGED <<vehicles, customers, maintenances, reqs, users>>

\* variant of cancelRental that leaves the vehicle as it is
cancelRentalKeepingVehicle(id) ==
  IF id \notin DOMAIN rentals
  THEN /\ Respond("cancelRental", 404, "Alquiler no encontrado", id, <<>>)
       /\ UNCHANGED <<vehicles, customers, rentals, maintenances, reqs, users>>
  ELSE IF rentals[id].rental_status \in {"completed", "cancelled"}
  THEN /\ Respond("cancelRental", 400, "El alquiler ya esta completado o cancelado", id, <<>>)
       /\ UNCHANGED <<vehicles, customers, rentals, maintenances, reqs, users>>
  ELSE /\ rentals' = [rentals EXCEPT ![id].rental_status = "cancelled"]
       /\ Respond("cancelRental", 200, "Alquiler cancelado exitosamente", id, <<>>)
       /\ UNCHANGED <<vehicles, customers, maintenances, reqs, users>>

\* variant of cancelRental whose guard names cancelled rentals only
cancelRentalOfCompleted(id) ==
  IF id \notin DOMAIN rentals
  THEN /\ Respond("cancelRental", 404, "Alquiler no encontrado", id, <<>>)
       /\ UNCHANGED <<vehicles, customers, rentals, maintenances, reqs, users>>
  ELSE IF rentals[id].rental_status = "cancelled"
  THEN /\ Respond("cancelRental", 400, "El alquiler ya esta completado o cancelado", id, <<>>)
       /\ UNCHANGED <<vehicles, customers, rentals, maintenances, reqs, users>>
  ELSE /\ rentals' = [rentals EXCEPT ![id].rental_status = "cancelled"]
       /\ vehicles' = [vehicles EXCEPT ![rentals[id].vehicle_id].status = "available"]
       /\ Respond("cancelRental", 200, "Alquiler cancelado exitosamente", id, <<>>)
       /\ UNCHANGED <<customers, maintenances, reqs, users>>

cancelRental(id) ==
  IF id \notin DOMAIN rentals
  THEN /\ Respond("cancelRental", 404, "Alquiler no encontrado", id, <<>>)
       /\ UNCHANGED <<vehicles, customers, rentals, maintenances, reqs, users>>
  ELSE IF rentals[id].rental_status \in {"completed", "cancelled"}
  THEN /\ Respond("cancelRental", 400, "El alquiler ya esta completado o cancelado", id, <<>>)
       /\ UNCHANGED <<vehicles, customers, rentals, maintenances, reqs, users>>
  ELSE /\ rentals' = [rentals EXCEPT ![id].rental_status = "cancelled"]
       /\ vehicles' = [vehicles EXCEPT ![rentals[id].vehicle_id].status = "available"]
       /\ Respond("cancelRental", 200, "Alquiler cancelado exitosamente", id, <<>>)
       /\ UNCHANGED <<customers, maintenances, reqs, users>>

startRental(id, body) ==
  IF id \notin DOMAIN rentals
  THEN /\ Respond("startRental", 404, "Alquiler no encontrado", id, <<>>)
       /\ UNCHANGED <<vehicles, customers, rentals, maintenances, reqs, users>>
  ELSE IF rentals[id].rental_status # "confirmed"
  THEN /\ Respond("startRental", 400, "El alquiler debe estar confirmado para iniciar", id, <<>>)
       /\ UNCHANGED <<vehicles, customers, rentals, maintenances, reqs, users>>
  ELSE /\ rentals' = [rentals EXCEPT ![id].rental_status = "active",
                                     ![id].pickup_mileage = {body.pickup_mileage},
                                     ![id].fuel_level_pickup = body.fuel_level_pickup]
       \* if (rental.vehicle && pickup_mileage): 0 is falsy
       /\ vehicles' = IF body.pickup_mileage # 0
                      THEN [vehicles EXCEPT ![rentals[id].vehicle_id].current_mileage =
                                               body.pickup_mileage]
                      ELSE vehicles
       /\ Respond("startRental", 200, "Alquiler iniciado exitosamente", id, <<>>)
       /\ UNCHANGED <<customers, maintenances, reqs, users>>

\* lateDays * rental.daily_rate * 1.5 when the return is after end_date
LateFees(row, returnDate) ==
  IF returnDate > row.end_date
  THEN (Ceil(returnDate - row.end_date, TicksPerDay) * row.daily_rate * LateFeeNum)
         \div LateFeeDen
  ELSE 0

\* rental.subtotal + rental.tax_amount + totalAdditionalCharges
\*   - rental.discount_amount, on the attributes of the fetched row
NewTotalAmount(row, totalAdditionalCharges) ==
  ToNumber(JsMinus(JsPlus(JsPlus(DbDecimal(row.subtotal), DbDecimal(row.tax_amount)),
                          JsNum(totalAdditionalCharges)),
                   DbDecimal(row.discount_amount)))

completeRental(id, body, now) ==
  IF id \notin DOMAIN rentals
  THEN /\ Respond("completeRental", 404, "Alquiler no encontrado", id, <<>>)
       /\ UNCHANGED <<vehicles, customers, rentals, maintenances, reqs, users>>
  ELSE IF rentals[id].rental_status # "active"
  THEN /\ Respond("completeRental", 400, "El alquiler debe estar activo para completar", id, <<>>)
       /\ UNCHANGED <<vehicles, customers, rentals, maintenances, reqs, users>>
  ELSE LET row == rentals[id]
           returnDate == WithDefault(body, "actual_return_date", now)
           lateFees == LateFees(row, returnDate)
           totalAdditionalCharges == OrElse(body, "additional_charges", 0) + lateFees
           newTotalAmount == NewTotalAmount(row, totalAdditionalCharges)
       IN /\ rentals' = [rentals EXCEPT ![id].rental_status = "completed",
                                        ![id].return_mileage = {body.return_mileage},
                                        ![id].additional_charges = totalAdditionalCharges,
                                        ![id].total_amount = newTotalAmount]
          /\ vehicles' = [vehicles EXCEPT
                            ![row.vehicle_id].status = "available",
                            ![row.vehicle_id].current_mileage =
                               OrElse(body, "return_mileage", @)]
          /\ Respond("completeRental", 200, "Alquiler completado exitosamente", id,
                     <<lateFees, totalAdditionalCharges, newTotalAmount>>)
          /\ UNCHANGED <<customers, maintenances, reqs, users>>

----------------------------------------------------------------------------
(* Maintenance tracker and fleet store: the handlers that move a vehicle's  *)
(* status.  A maintenance row carries the attributes these handlers read.   *)

deleteVehicle(id) ==
  IF id \notin DOMAIN vehicles
  THEN /\ Respond("deleteVehicle", 404, "Vehiculo no encontrado", 0, <<>>)
       /\ UNCHANGED <<vehicles, customers, rentals, maintenances, reqs, users>>
  ELSE IF ActiveRentals(rentals, "vehicle_id", id) > 0
  THEN /\ Respond("deleteVehicle", 400, "No se puede eliminar un vehiculo con alquileres activos", 0, <<>>)
       /\ UNCHANGED <<vehicles, customers, rentals, maintenances, reqs, users>>
  ELSE /\ vehicles' = [vehicles EXCEPT ![id].is_active = FALSE, ![id].status = "inactive"]
       /\ Respond("deleteVehicle", 200, "Vehiculo eliminado exitosamente", 0, <<>>)
       /\ UNCHANGED <<customers, rentals, maintenances, reqs, users>>

\* vehicle.update(updateData): the attributes the body carries are overwritten
PatchVehicle(row, body) ==
  [f \in DOMAIN row |-> IF Has(body, f) THEN body[f] ELSE row[f]]

updateVehicle(id, body) ==
  IF id \notin DOMAIN vehicles
  THEN /\ Respond("updateVehicle", 404, "Vehiculo no encontrado", 0, <<>>)
       /\ UNCHANGED <<vehicles, customers, rentals, maintenances, reqs, users>>
  ELSE /\ vehicles' = [vehicles EXCEPT ![id] = PatchVehicle(@, body)]
       /\ Respond("updateVehicle", 200, "Vehiculo actualizado exitosamente", 0, <<>>)
       /\ UNCHANGED <<customers, rentals, maintenances, reqs, users>>

updateMileage(id, current_mileage) ==
  IF id \notin DOMAIN vehicles
  THEN /\ Respond("updateMileage", 404, "Vehiculo no encontrado", 0, <<>>)
       /\ UNCHANGED <<vehicles, customers, rentals, maintenances, reqs, users>>
  ELSE IF current_mileage < vehicles[id].current_mileage
  THEN /\ Respond("updateMileage", 400, "El kilometraje no puede ser menor al actual", 0, <<>>)
       /\ UNCHANGED <<vehicles, customers, rentals, maintenances, reqs, users>>
  ELSE /\ vehicles' = [vehicles EXCEPT ![id].current_mileage = current_mileage]
       /\ Respond("updateMileage", 200, "Kilometraje actualizado exitosamente", 0, <<>>)
       /\ UNCHANGED <<customers, rentals, maintenances, reqs, users>>

deleteCustomer(id) ==
  IF id \notin DOMAIN customers
  THEN /\ Respond("deleteCustomer", 404, "Cliente no encontrado", 0, <<>>)
       /\ UNCHANGED <<vehicles, customers, rentals, maintenances, reqs, users>>
  ELSE IF ActiveRentals(rentals, "customer_id", id) > 0
  THEN /\ Respond("deleteCustomer", 400, "No se puede eliminar un cliente con alquileres activos", 0, <<>>)
       /\ UNCHANGED <<vehicles, customers, rentals, maintenances, reqs, users>>
  ELSE /\ customers' = [customers EXCEPT ![id].is_active = FALSE]
       /\ Respond("deleteCustomer", 200, "Cliente eliminado exitosamente", 0, <<>>)
       /\ UNCHANGED <<vehicles, rentals, maintenances, reqs, users>>

\* a primary key no stored row has (id: defaultValue UUIDV4)
NewId(table) ==
  CHOOSE i \in 1..(Cardinality(DOMAIN table) + 1) : i \notin DOMAIN table

\* the table with the row stored under the key
Insert(table, id, row) ==
  [i \in DOMAIN table \cup {id} |-> IF i = id THEN row ELSE table[i]]

\* instance.destroy(): the table without the row
Destroy(table, id) == [i \in DOMAIN table \ {id} |-> table[i]]

\* a nullable column: {} is null, {x} holds x; the body's value when it
\* carries the field, otherwise the value kept
Nullable(obj, f, kept) == IF Has(obj, f) THEN {obj[f]} ELSE kept

\* the values createMaintenance hands to Maintenance.create, as the row they
\* become (beforeCreate only draws the maintenance_number)
NewMaintenance(body) ==
  [vehicle_id |-> body.vehicle_id,
   status |-> WithDefault(body, "status", "scheduled"),
   priority |-> WithDefault(body, "priority", "medium"),
   scheduled_date |-> body.scheduled_date,
   completed_date |-> Nullable(body, "completed_date", {}),
   mileage_at_maintenance |-> Nullable(body, "mileage_at_maintenance", {}),
   next_maintenance_mileage |-> Nullable(body, "next_maintenance_mileage", {})]

\* hooks.beforeUpdate, run by every maintenance.update(...)
beforeUpdate(row, now) ==
  IF row.completed_date # {}
  THEN [row EXCEPT !.status = "completed"]
  ELSE IF row.scheduled_date < now /\ row.status = "scheduled"
  THEN [row EXCEPT !.status = "overdue"]
  ELSE row

\* maintenance.update(updateData): the attributes the body carries are overwritten
PatchMaintenance(row, body) ==
  [f \in DOMAIN row |->
     IF f \in {"completed_date", "mileage_at_maintenance", "next_maintenance_mileage"}
     THEN Nullable(body, f, row[f])
     ELSE WithDefault(body, f, row[f])]

\* variant of createMaintenance that takes any priority for critical
\* variant of the availability query that joins the rentals picked up only
AvailableVehiclesAmongActive(start_date, end_date) ==
  {v \in DOMAIN vehicles :
     /\ vehicles[v].status = "available"
     /\ vehicles[v].is_active
     /\ {i \in DOMAIN rentals :
           /\ rentals[i].vehicle_id = v
           /\ rentals[i].rental_status = "active"
           /\ \/ (start_date <= rentals[i].start_date /\ rentals[i].start_date <= end_date)
              \/ (start_date <= rentals[i].end_date /\ rentals[i].end_date <= end_date)
              \/ (rentals[i].start_date <= start_date /\ rentals[i].end_date >= end_date)}
          = {}}

\* Vehicle.findAll({ where: { status: 'available', is_active: true },
\*   include: [the live rentals whose dates conflict, required: false] })
\* filtered on vehicle.rentals.length === 0
AvailableVehicles(start_date, end_date) ==
  {v \in DOMAIN vehicles :
     /\ vehicles[v].status = "available"
     /\ vehicles[v].is_active
     /\ {i \in DOMAIN rentals :
           /\ rentals[i].vehicle_id = v
           /\ rentals[i].rental_status \in {"reserved", "confirmed", "active"}
           /\ \/ (start_date <= rentals[i].start_date /\ rentals[i].start_date <= end_date)
              \/ (start_date <= rentals[i].end_date /\ rentals[i].end_date <= end_date)
              \/ (rentals[i].start_date <= start_date /\ rentals[i].end_date >= end_date)}
          = {}}

\* query: a function whose domain is the set of the parameters it carries
getAvailableVehicles(query) ==
  IF ~Has(query, "start_date") \/ ~Has(query, "end_date")
  THEN /\ Respond("getAvailableVehicles", 400, "Fechas de inicio y fin son requeridas", 0, <<>>)
       /\ UNCHANGED <<vehicles, customers, rentals, maintenances, reqs, users>>
  ELSE /\ Respond("getAvailableVehicles", 200, "", 0,
                  <<AvailableVehicles(query.start_date, query.end_date)>>)
       /\ UNCHANGED <<vehicles, customers, rentals, maintenances, reqs, users>>

createMaintenanceAnyPriority(body) ==
  LET vehicle == FindByPk(vehicles, body.vehicle_id)
  IN IF vehicle = {} \/ (\E v \in vehicle : ~v.is_active)
     THEN /\ Respond("createMaintenance", 400, "Vehiculo no encontrado o inactivo", 0, <<>>)
          /\ UNCHANGED <<vehicles, customers, rentals, maintenances, reqs, users>>
     ELSE LET row == NewMaintenance(body)
              id == NewId(maintenances)
          IN /\ maintenances' = Insert(maintenances, id, row)
             /\ vehicles' = IF row.status = "scheduled"
                            THEN [vehicles EXCEPT ![body.vehicle_id].status = "maintenance"]
                            ELSE vehicles
             /\ Respond("createMaintenance", 201, "Mantenimiento creado exitosamente", id, <<>>)
             /\ UNCHANGED <<customers, rentals, reqs, users>>

createMaintenance(body) ==
  LET vehicle == FindByPk(vehicles, body.vehicle_id)
  IN IF vehicle = {} \/ (\E v \in vehicle : ~v.is_active)
     THEN /\ Respond("createMaintenance", 400, "Vehiculo no encontrado o inactivo", 0, <<>>)
          /\ UNCHANGED <<vehicles, customers, rentals, maintenances, reqs, users>>
     ELSE LET row == NewMaintenance(body)
              id == NewId(maintenances)
          IN /\ maintenances' = Insert(maintenances, id, row)
             /\ vehicles' = IF row.priority = "critical" /\ row.status = "scheduled"
                            THEN [vehicles EXCEPT ![body.vehicle_id].status = "maintenance"]
                            ELSE vehicles
             /\ Respond("createMaintenance", 201, "Mantenimiento creado exitosamente", id, <<>>)
             /\ UNCHANGED <<customers, rentals, reqs, users>>

updateMaintenance(id, body, now) ==
  IF id \notin DOMAIN maintenances
  THEN /\ Respond("updateMaintenance", 404, "Mantenimiento no encontrado", id, <<>>)
       /\ UNCHANGED <<vehicles, customers, rentals, maintenances, reqs, users>>
  ELSE LET row == maintenances[id]
           completing == /\ Has(body, "status")
                         /\ body.status = "completed"
                         /\ row.status # "completed"
           \* updateData.completed_date = new Date()
           updateData == IF completing
                         THEN [f \in DOMAIN body \cup {"completed_date"} |->
                                 IF f = "completed_date" THEN now ELSE body[f]]
                         ELSE body
           mileage == OrElse(updateData, "mileage_at_maintenance", 0)
           vehicle == vehicles[row.vehicle_id]
           released == IF completing /\ vehicle.status = "maintenance"
                       THEN [vehicle EXCEPT !.status = "available"]
                       ELSE vehicle
           serviced == IF completing /\ mileage # 0
                       THEN [released EXCEPT !.current_mileage = mileage,
                                             !.last_maintenance_mileage = {mileage}]
                       ELSE released
       IN /\ vehicles' = [vehicles EXCEPT ![row.vehicle_id] = serviced]
          /\ maintenances' = [maintenances EXCEPT
                                ![id] = beforeUpdate(PatchMaintenance(row, updateData), now)]
          /\ Respond("updateMaintenance", 200, "Mantenimiento actualizado exitosamente", id, <<>>)
          /\ UNCHANGED <<customers, rentals, reqs, users>>

\* variant of deleteMaintenance without the guard on completed records
deleteMaintenanceUnguarded(id) ==
  IF id \notin DOMAIN maintenances
  THEN /\ Respond("deleteMaintenance", 404, "Mantenimiento no encontrado", id, <<>>)
       /\ UNCHANGED <<vehicles, customers, rentals, maintenances, reqs, users>>
  ELSE /\ maintenances' = Destroy(maintenances, id)
       /\ Respond("deleteMaintenance", 200, "Mantenimiento eliminado exitosamente", id, <<>>)
       /\ UNCHANGED <<vehicles, customers, rentals, reqs, users>>

deleteMaintenance(id) ==
  IF id \notin DOMAIN maintenances
  THEN /\ Respond("deleteMaintenance", 404, "Mantenimiento no encontrado", id, <<>>)
       /\ UNCHANGED <<vehicles, customers, rentals, maintenances, reqs, users>>
  ELSE IF maintenances[id].status = "completed"
  THEN /\ Respond("deleteMaintenance", 400, "No se puede eliminar un mantenimiento completado", id, <<>>)
       /\ UNCHANGED <<vehicles, customers, rentals, maintenances, reqs, users>>
  ELSE /\ maintenances' = Destroy(maintenances, id)
       /\ Respond("deleteMaintenance", 200, "Mantenimiento eliminado exitosamente", id, <<>>)
       /\ UNCHANGED <<vehicles, customers, rentals, reqs, users>>

startMaintenance(id, body, now) ==
  IF id \notin DOMAIN maintenances
  THEN /\ Respond("startMaintenance", 404, "Mantenimiento no encontrado", id, <<>>)
       /\ UNCHANGED <<vehicles, customers, rentals, maintenances, reqs, users>>
  ELSE IF maintenances[id].status # "scheduled"
  THEN /\ Respond("startMaintenance", 400, "El mantenimiento debe estar programado para iniciar", id, <<>>)
       /\ UNCHANGED <<vehicles, customers, rentals, maintenances, reqs, users>>
  ELSE LET row == maintenances[id]
           values == [status |-> "in_progress"]
                       @@ [f \in DOMAIN body \cap {"mileage_at_maintenance"} |-> body[f]]
       IN /\ maintenances' = [maintenances EXCEPT
                                ![id] = beforeUpdate(PatchMaintenance(row, values), now)]
          /\ vehicles' = [vehicles EXCEPT ![row.vehicle_id].status = "maintenance"]
          /\ Respond("startMaintenance", 200, "Mantenimiento iniciado exitosamente", id, <<>>)
          /\ UNCHANGED <<customers, rentals, reqs, users>>

completeMaintenance(id, body, now) ==
  IF id \notin DOMAIN maintenances
  THEN /\ Respond("completeMaintenance", 404, "Mantenimiento no encontrado", id, <<>>)
       /\ UNCHANGED <<vehicles, customers, rentals, maintenances, reqs, users>>
  ELSE IF maintenances[id].status # "in_progress"
  THEN /\ Respond("completeMaintenance", 400, "El mantenimiento debe estar en progreso para completar", id, <<>>)
       /\ UNCHANGED <<vehicles, customers, rentals, maintenances, reqs, users>>
  ELSE LET row == maintenances[id]
           values == [status |-> "completed", completed_date |-> now]
                       @@ [f \in DOMAIN body \cap {"next_maintenance_mileage"} |-> body[f]]
           \* if (next_maintenance_mileage): 0 is falsy
           next == OrElse(body, "next_maintenance_mileage", 0)
       IN /\ maintenances' = [maintenances EXCEPT
                                ![id] = beforeUpdate(PatchMaintenance(row, values), now)]
          /\ vehicles' = [vehicles EXCEPT
                            ![row.vehicle_id].status = "available",
                            ![row.vehicle_id].last_maintenance_mileage =
                               row.mileage_at_maintenance,
                            ![row.vehicle_id].next_maintenance_mileage =
                               IF next # 0 THEN {next} ELSE @]
          /\ Respond("completeMaintenance", 200, "Mantenimiento completado exitosamente", id, <<>>)
          /\ UNCHANGED <<customers, rentals, reqs, users>>

----------------------------------------------------------------------------
(* Sequential execution: every request runs to its response.  The          *)
(* specifications below run the same handlers on different requests.        *)

Init ==
  /\ vehicles = [v \in Vehicles |->
                   [status |-> "available", is_active |-> TRUE,
                    daily_rate |-> IF v = "v1" THEN 5000 ELSE 3000,
                    current_mileage |-> 0,
                    last_maintenance_mileage |-> {0},
                    next_maintenance_mileage |-> {}]]
  /\ customers = [c \in Customers |-> [is_active |-> TRUE]]
  /\ rentals = <<>>
  /\ maintenances = <<>>
  /\ response = [op |-> "none", code |-> 0, message |-> "", id |-> 0, data |-> <<>>]
  /\ reqs = <<>>
  /\ users = [u \in Users |->
                [role |-> CASE u = "u1" -> "admin"
                            [] u = "u2" -> "gestor_flota"
                            [] OTHER -> "cliente",
                 is_active |-> TRUE]]

NoFields == <<>>
NoRow == 0

\* the tables hold at most the rows the identifiers name
Bounded(rentalIds, maintenanceIds) ==
  /\ DOMAIN rentals' \subseteq rentalIds
  /\ DOMAIN maintenances' \subseteq maintenanceIds

----------------------------------------------------------------------------
(* Spec: the life of one rental (booking, re-dating, status patches,        *)
(* pickup, return, cancellation) on a fleet of two vehicles that also go    *)
(* through maintenance and removal.  Bookings start at date 0, the bodies   *)
(* carry no charges and the mileage is 0: SpecCalendar draws the periods,   *)
(* SpecBilling the charges and the mileage.                                 *)

RentalIds == {1}
MaintenanceIds == {1}

\* a well-formed body for each vehicle and period
Body(v, s, e) ==
  [customer_id |-> "c1", vehicle_id |-> v, start_date |-> s, end_date |-> e,
   rental_number |-> "RNT"]

CoreBodies == {Body(v, 0, e) : v \in Vehicles, e \in Dates}

OddBodies ==
  {[customer_id |-> UnknownId, vehicle_id |-> "v1", start_date |-> 0,
    end_date |-> 1, rental_number |-> "RNT"],
   [customer_id |-> "c1", vehicle_id |-> UnknownId, start_date |-> 0,
    end_date |-> 1, rental_number |-> "RNT"],
   [customer_id |-> "c1", vehicle_id |-> "v1", start_date |-> 0, end_date |-> 1]}

CreateBodies == CoreBodies \cup OddBodies

UpdateBodies ==
  {[end_date |-> d] : d \in Dates}
    \cup {[rental_status |-> st] : st \in RentalStatuses}

StartBodies == {[pickup_mileage |-> 0, fuel_level_pickup |-> "half"]}

CompleteBodies == {[return_mileage |-> 0, actual_return_date |-> 0]}

MaintenanceBodies ==
  {[vehicle_id |-> v, scheduled_date |-> MaxDate] : v \in {"v1", UnknownId}}

MaintenanceStarts == {[mileage_at_maintenance |-> 0]}

CreateRental ==
  \E body \in CreateBodies :
    createRental(body) /\ Bounded(RentalIds, MaintenanceIds)

UpdateRental ==
  \E id \in RentalIds \cup {NoRow}, body \in UpdateBodies : updateRental(id, body)

CancelRental == \E id \in RentalIds \cup {NoRow} : cancelRental(id)

StartRental ==
  \E id \in RentalIds \cup {NoRow}, body \in StartBodies : startRental(id, body)

CompleteRental ==
  \E id \in RentalIds \cup {NoRow}, body \in CompleteBodies :
    completeRental(id, body, 0)

DeleteVehicle == \E id \in {"v2", UnknownId} : deleteVehicle(id)

CreateMaintenance ==
  \E body \in MaintenanceBodies :
    createMaintenance(body) /\ Bounded(RentalIds, MaintenanceIds)

StartMaintenance ==
  \E id \in MaintenanceIds \cup {NoRow}, body \in MaintenanceStarts :
    startMaintenance(id, body, 0)

CompleteMaintenance ==
  \E id \in MaintenanceIds \cup {NoRow} : completeMaintenance(id, NoFields, 0)

Next ==
  \/ CreateRental
  \/ UpdateRental
  \/ CancelRental
  \/ StartRental
  \/ CompleteRental
  \/ DeleteVehicle
  \/ CreateMaintenance
  \/ StartMaintenance
  \/ CompleteMaintenance

Spec == Init /\ [][Next]_vars

----------------------------------------------------------------------------
(* Properties of Spec *)

\* C3: createRental on a vehicle whose status is not 'available' answers
\* with an error and writes nothing: the rentals and the vehicles are as
\* they were.
C3_UnavailableVehicleRejected ==
  [][\A body \in CreateBodies :
       (/\ body.vehicle_id \in DOMAIN vehicles
        /\ vehicles[body.vehicle_id].status # "available"
        /\ createRental(body))
       => (/\ response'.code >= 400
           /\ rentals' = rentals
           /\ vehicles' = vehicles)]_vars

\* createRental has just refused a vehicle while one vehicle is in
\* maintenance and the other one is inactive
C3_Witness ==
  /\ response.op = "createRental"
  /\ response.message = "Vehiculo no disponible"
  /\ vehicles["v1"].status = "maintenance"
  /\ vehicles["v2"].status = "inactive"

\* C8: cancelRental and completeRental on a completed or cancelled rental
\* answer with an error and leave the rental and the vehicle records as
\* they were.
C8_TerminalCancelCompleteRejected ==
  [][\A id \in DOMAIN rentals :
       (/\ rentals[id].rental_status \in TerminalStatuses
        /\ \/ cancelRental(id)
           \/ \E body \in CompleteBodies : completeRental(id, body, 0))
       => (/\ response'.code >= 400
           /\ rentals' = rentals
           /\ vehicles' = vehicles)]_vars

\* cancelRental has just refused a completed rental
C8_Witness ==
  /\ response.op = "cancelRental"
  /\ response.code = 400
  /\ response.id \in DOMAIN rentals
  /\ rentals[response.id].rental_status = "completed"

\* C9: a completed or cancelled rental never changes again: updateRental,
\* startRental, completeRental and cancelRental refuse it, and no step
\* changes its record.
C9_TerminalIsFinal ==
  [][\A id \in DOMAIN rentals :
       rentals[id].rental_status \in TerminalStatuses
       => (/\ rentals'[id] = rentals[id]
           /\ (\/ \E body \in UpdateBodies : updateRental(id, body)
               \/ \E body \in StartBodies : startRental(id, body)
               \/ \E body \in CompleteBodies : completeRental(id, body, 0)
               \/ cancelRental(id))
              => response'.code >= 400)]_vars

\* updateRental has just refused a cancelled rental
C9_Witness ==
  /\ response.op = "updateRental"
  /\ response.code = 400
  /\ response.id \in DOMAIN rentals
  /\ rentals[response.id].rental_status = "cancelled"

\* the position of a status on reserved -> confirmed -> active -> completed,
\* cancelled being as final as completed
StatusRank(st) ==
  CASE st = "reserved" -> 0
    [] st = "confirmed" -> 1
    [] st = "active" -> 2
    [] OTHER -> 3

\* C10: no step moves a rental to an earlier status.
C10_StatusMovesForward ==
  [][\A id \in DOMAIN rentals :
       StatusRank(rentals'[id].rental_status) >= StatusRank(rentals[id].rental_status)]_vars

\* C16: cancelRental on a reserved, confirmed or active rental answers 200,
\* sets the rental to 'cancelled' and its vehicle's status to 'available'.
C16_CancelFreesVehicle ==
  [][\A id \in DOMAIN rentals :
       (rentals[id].rental_status \in LiveStatuses /\ cancelRental(id))
       => (/\ response'.code = 200
           /\ rentals'[id].rental_status = "cancelled"
           /\ vehicles'[rentals[id].vehicle_id].status = "available")]_vars

\* cancelRental has just cancelled a rental that had been picked up
C16_Witness ==
  /\ response.op = "cancelRental"
  /\ response.code = 200
  /\ response.id \in DOMAIN rentals
  /\ rentals[response.id].rental_status = "cancelled"
  /\ rentals[response.id].pickup_mileage # {}
  /\ vehicles[rentals[response.id].vehicle_id].status = "available"

----------------------------------------------------------------------------
(* SpecCalendar: the calendar of one vehicle.  Two bookings of v1 are made, *)
(* re-dated and cancelled while the vehicle goes through a maintenance,     *)
(* which is what hands a booked vehicle back as 'available'.                *)

CalendarRentalIds == {1, 2}

CalendarBodies == {Body("v1", s, e) : s \in Dates, e \in Dates}

CalendarPatches ==
  {[start_date |-> d] : d \in Dates} \cup {[end_date |-> d] : d \in Dates}

CalendarCreateRental ==
  \E body \in CalendarBodies :
    createRental(body) /\ Bounded(CalendarRentalIds, MaintenanceIds)

CalendarUpdateRental ==
  \E id \in CalendarRentalIds, body \in CalendarPatches : updateRental(id, body)

CalendarCancelRental == \E id \in CalendarRentalIds : cancelRental(id)

CalendarCreateMaintenance ==
  createMaintenance([vehicle_id |-> "v1", scheduled_date |-> MaxDate])
    /\ Bounded(CalendarRentalIds, MaintenanceIds)

CalendarStartMaintenance ==
  \E id \in MaintenanceIds, body \in MaintenanceStarts : startMaintenance(id, body, 0)

CalendarCompleteMaintenance ==
  \E id \in MaintenanceIds : completeMaintenance(id, NoFields, 0)

NextCalendar ==
  \/ CalendarCreateRental
  \/ CalendarUpdateRental
  \/ CalendarCancelRental
  \/ CalendarCreateMaintenance
  \/ CalendarStartMaintenance
  \/ CalendarCompleteMaintenance

SpecCalendar == Init /\ [][NextCalendar]_vars

----------------------------------------------------------------------------
(* Properties of SpecCalendar *)

\* the inclusive-bounds overlap test of two periods
Overlap(s1, e1, s2, e2) == s1 <= e2 /\ s2 <= e1

IsLive(row) == row.rental_status \in LiveStatuses

\* C1: no two distinct live rentals of the same vehicle have overlapping
\* periods.
C1_NoDoubleBooking ==
  \A i \in DOMAIN rentals, j \in DOMAIN rentals :
    (/\ i # j
     /\ rentals[i].vehicle_id = rentals[j].vehicle_id
     /\ IsLive(rentals[i]) /\ IsLive(rentals[j]))
    => ~Overlap(rentals[i].start_date, rentals[i].end_date,
                rentals[j].start_date, rentals[j].end_date)

\* C6: while a rental of a vehicle is live, a createRental for that vehicle
\* over a period that overlaps the rental's is refused and creates no
\* rental, whatever happened in between.  Said of the steps: a createRental
\* step either answers with an error and stores nothing, or stores one
\* rental, the request's, whose period overlaps that of no live rental of
\* its vehicle.
C6_OverlappingRequestRejected ==
  [][response'.op = "createRental"
     => IF response'.code >= 400
        THEN rentals' = rentals
        ELSE /\ Len(rentals') = Len(rentals) + 1
             /\ LET new == rentals'[Len(rentals')]
                IN \A i \in DOMAIN rentals :
                     (rentals[i].vehicle_id = new.vehicle_id /\ IsLive(rentals[i]))
                     => ~Overlap(rentals[i].start_date, rentals[i].end_date,
                                 new.start_date, new.end_date)]_vars

\* the conflict query has just refused a request on a vehicle that is
\* available again while a rental of it is live
C6_Witness ==
  /\ response.op = "createRental"
  /\ response.message = "El vehiculo ya tiene reservas en las fechas seleccionadas"
  /\ vehicles["v1"].status = "available"
  /\ \E i \in DOMAIN rentals : rentals[i].vehicle_id = "v1" /\ IsLive(rentals[i])

----------------------------------------------------------------------------
(* SpecBilling: the charges of one rental of v1 (50.00 a day).  The bodies  *)
(* carry additional charges, a discount and a status; the rental is         *)
(* patched, picked up and returned on time, late, or cancelled.             *)

Charges == {1000}
Discounts == {500}

\* the optional fields of a createRental body
BillingExtras ==
  {a @@ d @@ st : a \in {NoFields} \cup {[additional_charges |-> c] : c \in Charges},
                  d \in {NoFields} \cup {[discount_amount |-> c] : c \in Discounts},
                  st \in {NoFields, [rental_status |-> "confirmed"]}}

BillingBodies == {Body("v1", 0, e) @@ x : e \in ReturnDates, x \in BillingExtras}

BillingPatches ==
  {[rental_status |-> "confirmed"]}
    \cup {[additional_charges |-> c] : c \in Charges}
    \cup {[discount_amount |-> c] : c \in Discounts}

\* a return on actual_return_date, and a return that leaves the date out
BillingReturns ==
  {[return_mileage |-> m, actual_return_date |-> d] @@ a :
     m \in Mileages, d \in ReturnDates,
     a \in {NoFields} \cup {[additional_charges |-> c] : c \in Charges}}
  \cup {[return_mileage |-> m] : m \in Mileages}

BillingCreateRental ==
  \E body \in BillingBodies :
    createRental(body) /\ Bounded(RentalIds, {})

BillingUpdateRental == \E body \in BillingPatches : updateRental(1, body)

BillingCancelRental == cancelRental(1)

\* a pickup at each odometer reading
BillingPickups ==
  {[pickup_mileage |-> m, fuel_level_pickup |-> "half"] : m \in Mileages}

BillingStartRental == \E body \in BillingPickups : startRental(1, body)

BillingUpdateMileage ==
  \E current_mileage \in Mileages : updateMileage("v1", current_mileage)

BillingCompleteRental ==
  \E body \in BillingReturns : completeRental(1, body, MaxReturnDate)

NextBilling ==
  \/ BillingCreateRental
  \/ BillingUpdateRental
  \/ BillingCancelRental
  \/ BillingStartRental
  \/ BillingCompleteRental
  \/ BillingUpdateMileage

SpecBilling == Init /\ [][NextBilling]_vars

----------------------------------------------------------------------------
(* Properties of SpecBilling *)

\* subtotal + tax_amount + additional_charges - discount_amount of a row
ChargesSum(row) ==
  row.subtotal + row.tax_amount + row.additional_charges - row.discount_amount

\* C4: the total_amount of every stored rental is its subtotal plus its
\* tax_amount plus its additional_charges minus its discount_amount.
C4_TotalIsSumOfCharges ==
  \A id \in DOMAIN rentals : rentals[id].total_amount = ChargesSum(rentals[id])

\* C5: a createRental that succeeds stores a rental with status 'reserved',
\* the vehicle's daily_rate, total_days = ceil(days of the period),
\* subtotal = total_days x daily_rate, tax_amount = 19% of the subtotal and
\* total_amount = subtotal + tax_amount + additional_charges -
\* discount_amount, and sets the vehicle's status to 'rented'.
C5_CreatedRentalIsReservedAndPriced ==
  [][\A body \in BillingBodies :
       (createRental(body) /\ response'.code = 201)
       => LET row == rentals'[response'.id]
              rate == vehicles[body.vehicle_id].daily_rate
          IN /\ row.rental_status = "reserved"
             /\ row.daily_rate = rate
             /\ row.total_days = Ceil(body.end_date - body.start_date, TicksPerDay)
             /\ row.subtotal = row.total_days * rate
             /\ 100 * row.tax_amount = TaxPercent * row.subtotal
             /\ row.total_amount = ChargesSum(row)
             /\ vehicles'[body.vehicle_id].status = "rented"]_vars

\* C7: completeRental on an active rental returned after its end_date stores
\* additional_charges = the body's additional_charges + ceil(days late) x
\* daily_rate x 1.5, and total_amount = subtotal + tax_amount + those
\* additional_charges - discount_amount.
C7_LateReturnIsCharged ==
  [][\A body \in BillingReturns :
       (/\ 1 \in DOMAIN rentals
        /\ rentals[1].rental_status = "active"
        /\ Has(body, "actual_return_date")
        /\ body.actual_return_date > rentals[1].end_date
        /\ completeRental(1, body, MaxReturnDate))
       => LET daysLate == Ceil(body.actual_return_date - rentals[1].end_date, TicksPerDay)
              lateFee == (daysLate * rentals[1].daily_rate * LateFeeNum) \div LateFeeDen
          IN /\ rentals'[1].additional_charges
                  = WithDefault(body, "additional_charges", 0) + lateFee
             /\ rentals'[1].total_amount = ChargesSum(rentals'[1])]_vars

\* C14: startRental succeeds exactly on a confirmed rental; the rental is
\* then active with the pickup mileage and the fuel level of the body, and the
\* vehicle's current_mileage is the pickup mileage, for every pickup mileage
\* from 0 up; on any other rental it fails and nothing is written.
C14_StartRecordsPickup ==
  [][\A body \in BillingPickups :
       startRental(1, body) =>
         IF 1 \in DOMAIN rentals /\ rentals[1].rental_status = "confirmed"
         THEN /\ response'.code = 200
              /\ rentals'[1].rental_status = "active"
              /\ rentals'[1].pickup_mileage = {body.pickup_mileage}
              /\ rentals'[1].fuel_level_pickup = body.fuel_level_pickup
              /\ vehicles'[rentals[1].vehicle_id].current_mileage = body.pickup_mileage
         ELSE /\ response'.code # 200
              /\ UNCHANGED <<vehicles, rentals>>]_vars

\* C15: completeRental succeeds exactly on an active rental; the rental is
\* then completed, its vehicle available, and the vehicle's current_mileage
\* is the return mileage, for every return mileage from 0 up; on any other
\* rental it fails and nothing is written.
C15_CompleteRecordsReturn ==
  [][\A body \in BillingReturns :
       completeRental(1, body, MaxReturnDate) =>
         IF 1 \in DOMAIN rentals /\ rentals[1].rental_status = "active"
         THEN /\ response'.code = 200
              /\ rentals'[1].rental_status = "completed"
              /\ vehicles'[rentals[1].vehicle_id].status = "available"
              /\ vehicles'[rentals[1].vehicle_id].current_mileage = body.return_mileage
         ELSE /\ response'.code # 200
              /\ UNCHANGED <<vehicles, rentals>>]_vars

----------------------------------------------------------------------------
(* SpecRace: two createRental requests for v1 in flight at once.  The       *)
(* handler is an async function: it gives way at each await, so its         *)
(* persistence calls interleave with those of the other request.  A request *)
(* keeps the handler's local variables: the body, the vehicle it fetched,   *)
(* the id of the row it created, the code it answered with, and the number  *)
(* of rentals that were stored when its conflict query ran.                 *)

RaceRequests == {1, 2}

RaceBodies == {Body("v1", s, e) : s \in Dates, e \in Dates}

\* the request reaches the handler
Receive ==
  \E body \in RaceBodies :
    /\ Len(reqs) + 1 \in RaceRequests
    /\ reqs' = Append(reqs, [body |-> body, pc |-> "findCustomer", vehicle |-> {},
                             seen |-> 0, id |-> 0, code |-> 0])
    /\ UNCHANGED <<vehicles, customers, rentals, maintenances, response, users>>

\* the handler of request p answers and returns
Reject(p, code, message) ==
  /\ reqs' = [reqs EXCEPT ![p].pc = "done", ![p].code = code]
  /\ Respond("createRental", code, message, 0, <<>>)
  /\ UNCHANGED <<vehicles, customers, rentals, maintenances, users>>

\* the handler of request p goes on to its next await
Goto(p, pc) == reqs' = [reqs EXCEPT ![p].pc = pc]

\* await Customer.findByPk(customer_id) and the test of its result
FindCustomer(p) ==
  /\ reqs[p].pc = "findCustomer"
  /\ LET customer == FindByPk(customers, reqs[p].body.customer_id)
     IN IF customer = {} \/ (\E c \in customer : ~c.is_active)
        THEN Reject(p, 400, "Cliente no encontrado o inactivo")
        ELSE /\ Goto(p, "findVehicle")
             /\ UNCHANGED <<vehicles, customers, rentals, maintenances, response, users>>

\* await Vehicle.findByPk(vehicle_id) and the test of its result
FindVehicle(p) ==
  /\ reqs[p].pc = "findVehicle"
  /\ LET vehicle == FindByPk(vehicles, reqs[p].body.vehicle_id)
     IN IF NotAvailable(vehicle)
        THEN Reject(p, 400, "Vehiculo no disponible")
        ELSE /\ reqs' = [reqs EXCEPT ![p].pc = "count", ![p].vehicle = vehicle]
             /\ UNCHANGED <<vehicles, customers, rentals, maintenances, response, users>>

\* await Rental.count({ where: ... }) and the test of its result
CountConflicts(p) ==
  /\ reqs[p].pc = "count"
  /\ LET body == reqs[p].body
     IN IF ConflictingRentals(rentals, body.vehicle_id, body.start_date, body.end_date) > 0
        THEN Reject(p, 400, "El vehiculo ya tiene reservas en las fechas seleccionadas")
        ELSE /\ reqs' = [reqs EXCEPT ![p].pc = "create", ![p].seen = Len(rentals)]
             /\ UNCHANGED <<vehicles, customers, rentals, maintenances, response, users>>

\* await Rental.create(rentalData), priced on the vehicle fetched earlier
CreateRow(p) ==
  /\ reqs[p].pc = "create"
  /\ LET body == reqs[p].body
         row == NewRental(body, CHOOSE v \in reqs[p].vehicle : TRUE)
     IN IF ~RentalValid(row, body)
        THEN Reject(p, 500, "Error interno del servidor")
        ELSE /\ rentals' = Append(rentals, row)
             /\ reqs' = [reqs EXCEPT ![p].pc = "updateVehicle", ![p].id = Len(rentals) + 1]
             /\ UNCHANGED <<vehicles, customers, maintenances, response, users>>

\* await vehicle.update({ status: 'rented' })
MarkRented(p) ==
  /\ reqs[p].pc = "updateVehicle"
  /\ vehicles' = [vehicles EXCEPT ![reqs[p].body.vehicle_id].status = "rented"]
  /\ Goto(p, "respond")
  /\ UNCHANGED <<customers, rentals, maintenances, response, users>>

\* res.status(201).json(...) after the created rental is fetched back
Created(p) ==
  /\ reqs[p].pc = "respond"
  /\ reqs' = [reqs EXCEPT ![p].pc = "done", ![p].code = 201]
  /\ Respond("createRental", 201, "Alquiler creado exitosamente", reqs[p].id, <<>>)
  /\ UNCHANGED <<vehicles, customers, rentals, maintenances, users>>

RaceFindCustomer == \E p \in DOMAIN reqs : FindCustomer(p)
RaceFindVehicle == \E p \in DOMAIN reqs : FindVehicle(p)
RaceCountConflicts == \E p \in DOMAIN reqs : CountConflicts(p)
RaceCreateRow == \E p \in DOMAIN reqs : CreateRow(p)
RaceMarkRented == \E p \in DOMAIN reqs : MarkRented(p)
RaceCreated == \E p \in DOMAIN reqs : Created(p)

NextRace ==
  \/ Receive
  \/ RaceFindCustomer
  \/ RaceFindVehicle
  \/ RaceCountConflicts
  \/ RaceCreateRow
  \/ RaceMarkRented
  \/ RaceCreated

SpecRace == Init /\ [][NextRace]_vars

----------------------------------------------------------------------------
(* Properties of SpecRace *)

\* two live rentals of one vehicle over overlapping periods
DoubleBooked == ~C1_NoDoubleBooking

\* C2: two createRental requests for the same available vehicle over
\* overlapping periods can both pass the vehicle test and the conflict query
\* before either writes, and then both succeed.  A double-booking is there
\* exactly in that case: each request ran its conflict query while no rental
\* was stored.
C2_DoubleBookingOnlyByRace ==
  DoubleBooked => \A p \in DOMAIN reqs : reqs[p].id \in DOMAIN rentals /\ reqs[p].seen = 0

\* both requests passed their checks before either wrote, both answered 201,
\* and their rentals are a double-booking
C2_Witness ==
  /\ DoubleBooked
  /\ DOMAIN reqs = RaceRequests
  /\ \A p \in DOMAIN reqs :
       reqs[p].pc = "done" /\ reqs[p].code = 201 /\ reqs[p].seen = 0

\* C11: the rental write and the vehicle-status write of a handler take
\* effect as one step: in no state is a live rental stored while its vehicle
\* is not marked 'rented'.
C11_RentalAndVehicleWrittenTogether ==
  \A i \in DOMAIN rentals :
    IsLive(rentals[i]) => vehicles[rentals[i].vehicle_id].status = "rented"

----------------------------------------------------------------------------
(* SpecFleet: the vehicle and customer records.  A vehicle is patched, its   *)
(* mileage is reported, vehicles and the customer are removed, while one     *)
(* rental is booked, confirmed, made active and cancelled.                   *)

FleetBodies == {Body(v, 0, 1) : v \in Vehicles}

RatePatches == {[daily_rate |-> 4000]}

VehiclePatches ==
  RatePatches
    \cup {[status |-> st] : st \in VehicleStatuses}
    \cup {[current_mileage |-> m] : m \in Mileages}

FleetCreateRental ==
  \E body \in FleetBodies : createRental(body) /\ Bounded(RentalIds, {})

FleetUpdateRental ==
  \E st \in {"confirmed", "active"} : updateRental(1, [rental_status |-> st])

FleetCancelRental == cancelRental(1)

FleetUpdateVehicle ==
  \E id \in {"v1", UnknownId}, body \in VehiclePatches : updateVehicle(id, body)

FleetUpdateMileage ==
  \E id \in {"v1", UnknownId}, current_mileage \in Mileages :
    updateMileage(id, current_mileage)

FleetDeleteVehicle == \E id \in Vehicles \cup {UnknownId} : deleteVehicle(id)

\* the periods asked of the availability query, and a query without dates
FleetQueries ==
  {[start_date |-> s, end_date |-> e] : s \in Dates, e \in Dates} \cup {NoFields}

FleetGetAvailableVehicles == \E query \in FleetQueries : getAvailableVehicles(query)

FleetDeleteCustomer == \E id \in Customers \cup {UnknownId} : deleteCustomer(id)

NextFleet ==
  \/ FleetCreateRental
  \/ FleetUpdateRental
  \/ FleetCancelRental
  \/ FleetUpdateVehicle
  \/ FleetUpdateMileage
  \/ FleetDeleteVehicle
  \/ FleetDeleteCustomer
  \/ FleetGetAvailableVehicles

SpecFleet == Init /\ [][NextFleet]_vars

----------------------------------------------------------------------------
(* Properties of SpecFleet *)

\* C12: a direct update of a vehicle record (updateVehicle, updateMileage)
\* never changes the status of a vehicle.
C12_VehicleUpdateKeepsStatus ==
  [][response'.op \in {"updateVehicle", "updateMileage"}
     => \A v \in DOMAIN vehicles : vehicles'[v].status = vehicles[v].status]_vars

\* a rental of the customer (key "customer_id") or of the vehicle (key
\* "vehicle_id") is reserved, confirmed or active
HasLiveRental(key, id) ==
  \E i \in DOMAIN rentals : rentals[i][key] = id /\ IsLive(rentals[i])

\* C13: deleteCustomer and deleteVehicle on a record that has a live rental
\* answer 400 and leave the record as it was; with no live rental they set
\* is_active to false, and the vehicle's status to 'inactive'.
C13_SoftDeleteGuardedByLiveRentals ==
  [][/\ \A id \in DOMAIN customers :
          deleteCustomer(id)
          => IF HasLiveRental("customer_id", id)
             THEN response'.code = 400 /\ customers' = customers
             ELSE response'.code = 200 /\ ~customers'[id].is_active
     /\ \A id \in DOMAIN vehicles :
          deleteVehicle(id)
          => IF HasLiveRental("vehicle_id", id)
             THEN response'.code = 400 /\ vehicles' = vehicles
             ELSE /\ response'.code = 200
                  /\ ~vehicles'[id].is_active
                  /\ vehicles'[id].status = "inactive"]_vars

\* deleteCustomer has just refused a customer who has a live rental
C13_Witness ==
  /\ response.op = "deleteCustomer"
  /\ response.code = 400
  /\ HasLiveRental("customer_id", "c1")
  /\ customers["c1"].is_active

----------------------------------------------------------------------------
(* SpecMaintenance: the life of one maintenance record of v1 (scheduled in  *)
(* the past or in the future, of several priorities), patched, started,     *)
(* completed and deleted, while v1 is rented, released and removed.         *)

\* the time of every request of this specification
MaintenanceClock == {1}

\* a scheduled_date before the clock and one after it
ScheduledDates == {0, MaxDate}

\* the optional fields of a createMaintenance body
MaintenanceExtras ==
  {pr @@ st : pr \in {NoFields} \cup {[priority |-> x] : x \in {"high", "critical"}},
              st \in {NoFields, [status |-> "in_progress"]}}

MaintenanceCreates ==
  {[vehicle_id |-> v, scheduled_date |-> d] @@ x :
     v \in {"v1", UnknownId}, d \in ScheduledDates, x \in MaintenanceExtras}

MaintenanceStatuses == {"scheduled", "in_progress", "completed", "cancelled", "overdue"}

MaintenancePatches ==
  {[status |-> st] : st \in MaintenanceStatuses}
    \cup {[scheduled_date |-> d] : d \in ScheduledDates}
    \cup {[status |-> "completed", mileage_at_maintenance |-> m] : m \in Mileages}

MaintenancePickups == {[mileage_at_maintenance |-> m] : m \in Mileages}

MaintenanceReturns ==
  {NoFields} \cup {[next_maintenance_mileage |-> m] : m \in Mileages}

MaintCreateRental ==
  createRental(Body("v1", 0, 1)) /\ Bounded(RentalIds, MaintenanceIds)

MaintCancelRental == cancelRental(1)

MaintDeleteVehicle == deleteVehicle("v1")

MaintCreateMaintenance ==
  \E body \in MaintenanceCreates :
    createMaintenance(body) /\ Bounded(RentalIds, MaintenanceIds)

MaintUpdateMaintenance ==
  \E id \in MaintenanceIds \cup {NoRow}, body \in MaintenancePatches,
     now \in MaintenanceClock :
    updateMaintenance(id, body, now)

MaintStartMaintenance ==
  \E id \in MaintenanceIds \cup {NoRow}, body \in MaintenancePickups,
     now \in MaintenanceClock :
    startMaintenance(id, body, now)

MaintCompleteMaintenance ==
  \E id \in MaintenanceIds \cup {NoRow}, body \in MaintenanceReturns,
     now \in MaintenanceClock :
    completeMaintenance(id, body, now)

MaintDeleteMaintenance ==
  \E id \in MaintenanceIds \cup {NoRow} : deleteMaintenance(id)

NextMaintenance ==
  \/ MaintCreateRental
  \/ MaintCancelRental
  \/ MaintDeleteVehicle
  \/ MaintCreateMaintenance
  \/ MaintUpdateMaintenance
  \/ MaintStartMaintenance
  \/ MaintCompleteMaintenance
  \/ MaintDeleteMaintenance

SpecMaintenance == Init /\ [][NextMaintenance]_vars

----------------------------------------------------------------------------
(* Properties of SpecMaintenance *)

\* C17: createMaintenance for an existing active vehicle stores a record and,
\* when the record is critical and scheduled, sets the vehicle's status to
\* 'maintenance' whatever it was; with any other priority the vehicle's
\* status stays; for a missing or inactive vehicle it fails and stores nothing.
C17_CriticalMaintenanceTakesVehicle ==
  [][\A body \in MaintenanceCreates :
       (response'.op = "createMaintenance" /\ createMaintenance(body)) =>
         LET v == body.vehicle_id
             priority == WithDefault(body, "priority", "medium")
             status == WithDefault(body, "status", "scheduled")
         IN IF v \in DOMAIN vehicles /\ vehicles[v].is_active
            THEN /\ response'.code = 201
                 /\ DOMAIN maintenances' = DOMAIN maintenances \cup {response'.id}
                 /\ response'.id \notin DOMAIN maintenances
                 /\ priority = "critical" /\ status = "scheduled"
                      => vehicles'[v].status = "maintenance"
                 /\ priority # "critical"
                      => vehicles'[v].status = vehicles[v].status
            ELSE /\ response'.code >= 400
                 /\ UNCHANGED <<vehicles, maintenances>>]_vars

\* a critical maintenance has just been created for a vehicle that is out on
\* a rental
C17_Witness ==
  /\ response.op = "createMaintenance"
  /\ response.code = 201
  /\ response.id \in DOMAIN maintenances
  /\ maintenances[response.id].priority = "critical"
  /\ vehicles[maintenances[response.id].vehicle_id].status = "maintenance"
  /\ HasLiveRental("vehicle_id", maintenances[response.id].vehicle_id)

\* C18: startMaintenance succeeds exactly on a scheduled maintenance, which
\* is then in_progress with its vehicle in 'maintenance'; completeMaintenance
\* succeeds exactly on a maintenance in_progress, which is then completed
\* with its vehicle 'available', the vehicle's last_maintenance_mileage the
\* mileage the maintenance recorded and, when the body gives one, the
\* vehicle's next_maintenance_mileage the body's; from any other status each
\* fails and changes neither the maintenance nor the vehicle.
C18_MaintenanceStartAndComplete ==
  [][\A id \in DOMAIN maintenances, now \in MaintenanceClock :
       LET row == maintenances[id]
           v == row.vehicle_id
       IN /\ \A body \in MaintenancePickups :
               startMaintenance(id, body, now) =>
                 IF row.status = "scheduled"
                 THEN /\ response'.code = 200
                      /\ maintenances'[id].status = "in_progress"
                      /\ vehicles'[v].status = "maintenance"
                 ELSE /\ response'.code >= 400
                      /\ UNCHANGED <<vehicles, maintenances>>
          /\ \A body \in MaintenanceReturns :
               completeMaintenance(id, body, now) =>
                 IF row.status = "in_progress"
                 THEN /\ response'.code = 200
                      /\ maintenances'[id].status = "completed"
                      /\ vehicles'[v].status = "available"
                      /\ vehicles'[v].last_maintenance_mileage = row.mileage_at_maintenance
                      /\ Has(body, "next_maintenance_mileage")
                           => vehicles'[v].next_maintenance_mileage =
                                {body.next_maintenance_mileage}
                 ELSE /\ response'.code >= 400
                      /\ UNCHANGED <<vehicles, maintenances>>]_vars

\* C19: no step removes a maintenance record whose status is 'completed':
\* deleteMaintenance on it answers with an error and leaves the table as it
\* was; and no step removes a rental.
C19_CompletedMaintenanceIsKept ==
  [][/\ \A id \in DOMAIN maintenances :
          maintenances[id].status = "completed"
          => /\ id \in DOMAIN maintenances'
             /\ deleteMaintenance(id)
                  => (response'.code >= 400 /\ maintenances' = maintenances)
     /\ \A id \in DOMAIN rentals : id \in DOMAIN rentals']_vars

\* deleteMaintenance has just refused a completed maintenance
C19_Witness ==
  /\ response.op = "deleteMaintenance"
  /\ response.code = 400
  /\ response.id \in DOMAIN maintenances
  /\ maintenances[response.id].status = "completed"

\* C20: after every operation that creates or updates a maintenance record,
\* the record is 'completed' if its completed_date is set and, otherwise, is
\* not 'scheduled' if its scheduled_date is in the past.
C20_StatusFollowsDates ==
  [][\A now \in MaintenanceClock :
       (/\ response'.op \in {"createMaintenance", "updateMaintenance",
                             "startMaintenance", "completeMaintenance"}
        /\ response'.code \in {200, 201})
       => LET M == maintenances'[response'.id]
          IN IF M.completed_date # {}
             THEN M.status = "completed"
             ELSE M.scheduled_date < now => M.status # "scheduled"]_vars

----------------------------------------------------------------------------
(* Further properties of SpecCalendar, Spec, SpecFleet and SpecBilling *)

\* C24: createRental for a period whose start_date is not before its
\* end_date, by an active customer for an available vehicle without
\* conflicting rentals, answers with a client error (4xx and a message) and
\* writes nothing.
C24_InvalidPeriodIsClientError ==
  [][response'.op = "createRental" =>
       \A body \in CalendarBodies :
         (/\ body.start_date >= body.end_date
          /\ \E c \in FindByPk(customers, body.customer_id) : c.is_active
          /\ ~NotAvailable(FindByPk(vehicles, body.vehicle_id))
          /\ ConflictingRentals(rentals, body.vehicle_id,
                                body.start_date, body.end_date) = 0
          /\ createRental(body))
         => (/\ response'.code \in 400..499
             /\ response'.message # ""
             /\ UNCHANGED <<rentals, vehicles>>)]_vars

\* C26: after every operation a vehicle's status is 'rented' exactly when a
\* reserved, confirmed or active rental refers to the vehicle.
C26_RentedIffLiveRental ==
  \A v \in DOMAIN vehicles :
    vehicles[v].status = "rented" <=> HasLiveRental("vehicle_id", v)

\* C27: while a maintenance of a vehicle is in_progress the vehicle's status
\* is 'maintenance'.
C27_InProgressKeepsVehicleInMaintenance ==
  \A i \in DOMAIN maintenances :
    maintenances[i].status = "in_progress"
    => vehicles[maintenances[i].vehicle_id].status = "maintenance"

\* C28: no step lowers a vehicle's current_mileage, and updateMileage with a
\* value below the stored one is refused and leaves the vehicle as it was.
C28_MileageNeverDecreases ==
  [][/\ \A v \in DOMAIN vehicles :
          vehicles'[v].current_mileage >= vehicles[v].current_mileage
     /\ \A current_mileage \in Mileages :
          (/\ current_mileage < vehicles["v1"].current_mileage
           /\ updateMileage("v1", current_mileage))
          => (response'.code >= 400 /\ vehicles' = vehicles)]_vars

\* C30: the additional_charges a completed rental stores are at least the
\* additional_charges it stored before completeRental plus the late fee.
C30_CompletionKeepsCharges ==
  [][(response'.op = "completeRental" /\ response'.code = 200)
       => rentals'[response'.id].additional_charges
            >= rentals[response'.id].additional_charges + response'.data[1]]_vars

----------------------------------------------------------------------------
(* SpecOverlap: the date condition of the conflict query, applied to every  *)
(* stored period and every requested period of well-ordered dates.          *)

OrderedPeriods == {p \in Dates \X Dates : p[1] <= p[2]}

InitOverlap ==
  /\ Init!1 /\ Init!2 /\ Init!3 /\ Init!4 /\ Init!5 /\ Init!7
  /\ \E stored \in OrderedPeriods, asked \in OrderedPeriods :
       reqs = <<[start_date |-> stored[1], end_date |-> stored[2]],
                [start_date |-> asked[1], end_date |-> asked[2]]>>

\* the condition is evaluated on the stored period and the requested one
EvalDatesConflict ==
  /\ response.op = "none"
  /\ Respond("datesConflict", 0, "", 0,
             <<DatesConflict(reqs[1], reqs[2].start_date, reqs[2].end_date)>>)
  /\ UNCHANGED <<vehicles, customers, rentals, maintenances, reqs, users>>

NextOverlap == EvalDatesConflict

SpecOverlap == InitOverlap /\ [][NextOverlap]_vars

\* C25: for a stored period and a requested period of well-ordered dates the
\* three-branch condition is true exactly when the closed periods intersect.
C25_ConflictIffPeriodsIntersect ==
  response.op = "datesConflict"
  => (response.data[1]
        <=> Overlap(reqs[1].start_date, reqs[1].end_date,
                    reqs[2].start_date, reqs[2].end_date))

\* the condition has found a conflict for a request that starts on the date
\* the stored period ends
C25_Witness ==
  /\ response.op = "datesConflict"
  /\ response.data[1]
  /\ reqs[2].start_date = reqs[1].end_date
  /\ reqs[1].start_date < reqs[1].end_date
  /\ reqs[2].start_date < reqs[2].end_date

----------------------------------------------------------------------------
(* Authentication and roles: middleware/auth.js.  A bearer token is the     *)
(* user it was signed for, whether its signature verifies and whether it    *)
(* has expired; {} is a request without a token.  A route is the chain of   *)
(* its middleware and its handler.                                          *)

Everything == <<vehicles, customers, rentals, maintenances, reqs, users>>

\* variant of authenticateToken that does not look at the active flag
authenticateTokenOfAnyUser(token, next) ==
  IF token = {}
  THEN /\ Respond("authenticateToken", 401, "Token de acceso requerido", 0, <<>>)
       /\ UNCHANGED Everything
  ELSE LET decoded == CHOOSE t \in token : TRUE
       IN IF ~decoded.signed
          THEN /\ Respond("authenticateToken", 403, "Token invalido", 0, <<>>)
               /\ UNCHANGED Everything
          ELSE IF decoded.expired
          THEN /\ Respond("authenticateToken", 403, "Token expirado", 0, <<>>)
               /\ UNCHANGED Everything
          ELSE IF FindByPk(users, decoded.userId) = {}
          THEN /\ Respond("authenticateToken", 401, "Usuario no valido o inactivo", 0, <<>>)
               /\ UNCHANGED Everything
          ELSE next

authenticateToken(token, next) ==
  IF token = {}
  THEN /\ Respond("authenticateToken", 401, "Token de acceso requerido", 0, <<>>)
       /\ UNCHANGED Everything
  ELSE LET decoded == CHOOSE t \in token : TRUE
           user == FindByPk(users, decoded.userId)
       IN \* jwt.verify throws JsonWebTokenError, then TokenExpiredError
          IF ~decoded.signed
          THEN /\ Respond("authenticateToken", 403, "Token invalido", 0, <<>>)
               /\ UNCHANGED Everything
          ELSE IF decoded.expired
          THEN /\ Respond("authenticateToken", 403, "Token expirado", 0, <<>>)
               /\ UNCHANGED Everything
          ELSE IF user = {} \/ (\E u \in user : ~u.is_active)
          THEN /\ Respond("authenticateToken", 401, "Usuario no valido o inactivo", 0, <<>>)
               /\ UNCHANGED Everything
          ELSE next

\* variant of requireRole that lets every authenticated user through
requireRoleOfAnyone(roles, token, next) ==
  LET decoded == CHOOSE t \in token : TRUE
  IN IF FindByPk(users, decoded.userId) = {}
     THEN /\ Respond("requireRole", 401, "Usuario no autenticado", 0, <<>>)
          /\ UNCHANGED Everything
     ELSE next

\* requireRole(...roles), after authenticateToken has set req.user
requireRole(roles, token, next) ==
  LET decoded == CHOOSE t \in token : TRUE
      user == FindByPk(users, decoded.userId)
  IN IF user = {}
     THEN /\ Respond("requireRole", 401, "Usuario no autenticado", 0, <<>>)
          /\ UNCHANGED Everything
     ELSE IF \E u \in user : u.role \notin roles
     THEN /\ Respond("requireRole", 403, "No tienes permisos para realizar esta accion", 0, <<>>)
          /\ UNCHANGED Everything
     ELSE next

\* requireRole('admin')
requireAdmin(token, next) == requireRole({"admin"}, token, next)

\* requireRole('admin', 'gestor_flota') on the vehicle routes
FleetRoles == {"admin", "gestor_flota"}

\* Vehicle.create(vehicleData): the row of the body over the column defaults,
\* under the key id the row is given (id: defaultValue UUIDV4)
createVehicle(id, body) ==
  /\ vehicles' = Insert(vehicles, id,
                        [status |-> "available", is_active |-> TRUE,
                         daily_rate |-> body.daily_rate,
                         current_mileage |-> 0,
                         last_maintenance_mileage |-> {0},
                         next_maintenance_mileage |-> {}])
  /\ Respond("createVehicle", 201, "Vehiculo creado exitosamente", 0, <<>>)
  /\ UNCHANGED <<customers, rentals, maintenances, reqs, users>>

\* User.findOne({ where: { email } }), User.create({ ..., role: role || 'cliente' });
\* a user's key stands for its email
register(id, body) ==
  IF id \in DOMAIN users
  THEN /\ Respond("register", 409, "El usuario ya existe", 0, <<>>)
       /\ UNCHANGED Everything
  ELSE /\ users' = Insert(users, id,
                          [role |-> WithDefault(body, "role", "cliente"),
                           is_active |-> TRUE])
       /\ Respond("register", 201, "Usuario creado exitosamente", 0, <<>>)
       /\ UNCHANGED <<vehicles, customers, rentals, maintenances, reqs>>

getUsers ==
  /\ Respond("getUsers", 200, "", 0, <<DOMAIN users>>)
  /\ UNCHANGED Everything

\* role: role || user.role, is_active: is_active !== undefined ? is_active : user.is_active
updateUser(id, body) ==
  IF id \notin DOMAIN users
  THEN /\ Respond("updateUser", 404, "Usuario no encontrado", 0, <<>>)
       /\ UNCHANGED Everything
  ELSE /\ users' = [users EXCEPT ![id].role = WithDefault(body, "role", @),
                                 ![id].is_active = WithDefault(body, "is_active", @)]
       /\ Respond("updateUser", 200, "Usuario actualizado exitosamente", 0, <<>>)
       /\ UNCHANGED <<vehicles, customers, rentals, maintenances, reqs>>

----------------------------------------------------------------------------
(* SpecAuth: the routes behind authenticateToken and requireRole, called    *)
(* with the tokens of an admin, a fleet manager and a customer, with an     *)
(* expired token, a token that does not verify and no token, while users    *)
(* are registered, deactivated, reactivated and given other roles.          *)

\* tokens issued to the three users at login
IssuedTokens == {{[userId |-> u, signed |-> TRUE, expired |-> FALSE]} : u \in Users}

AuthTokens ==
  IssuedTokens
    \cup {{}, {[userId |-> "u1", signed |-> FALSE, expired |-> FALSE]},
          {[userId |-> "u1", signed |-> TRUE, expired |-> TRUE]}}

\* POST /vehicles
CreateVehicleRoute(token) ==
  \E id \in {"v3"} \ DOMAIN vehicles, body \in RatePatches :
    authenticateToken(token, requireRole(FleetRoles, token, createVehicle(id, body)))

\* PUT /vehicles/:id
UpdateVehicleRoute(token) ==
  \E body \in RatePatches :
    authenticateToken(token, requireRole(FleetRoles, token, updateVehicle("v2", body)))

\* PATCH /vehicles/:id/mileage
UpdateMileageRoute(token) ==
  authenticateToken(token, requireRole(FleetRoles, token, updateMileage("v1", MaxMileage)))

\* DELETE /vehicles/:id
DeleteVehicleRoute(token) ==
  authenticateToken(token, requireRole(FleetRoles, token, deleteVehicle("v2")))

\* POST /auth/register, for a new user and then for the same user again
RegisterRoute(token) ==
  authenticateToken(token, requireAdmin(token, register("u4", NoFields)))

\* GET /auth/users
GetUsersRoute(token) == authenticateToken(token, requireAdmin(token, getUsers))

\* PUT /auth/users/:id, for the customer
UpdateUserRoute(token) ==
  \E body \in {[is_active |-> b] : b \in BOOLEAN} \cup {[role |-> "gestor_flota"]} :
    authenticateToken(token, requireAdmin(token, updateUser("u3", body)))

\* POST /rentals
CreateRentalRoute(token) ==
  authenticateToken(token, createRental(Body("v1", 0, 1)))

\* POST /maintenances
CreateMaintenanceRoute(token) ==
  authenticateToken(token, createMaintenance([vehicle_id |-> "v1", scheduled_date |-> MaxDate]))

AuthCreateVehicle ==
  \E token \in AuthTokens : CreateVehicleRoute(token) /\ Bounded(RentalIds, MaintenanceIds)

AuthUpdateVehicle ==
  \E token \in AuthTokens : UpdateVehicleRoute(token) /\ Bounded(RentalIds, MaintenanceIds)

AuthUpdateMileage ==
  \E token \in AuthTokens : UpdateMileageRoute(token) /\ Bounded(RentalIds, MaintenanceIds)

AuthDeleteVehicle ==
  \E token \in AuthTokens : DeleteVehicleRoute(token) /\ Bounded(RentalIds, MaintenanceIds)

AuthRegister ==
  \E token \in AuthTokens : RegisterRoute(token) /\ Bounded(RentalIds, MaintenanceIds)

AuthGetUsers ==
  \E token \in AuthTokens : GetUsersRoute(token) /\ Bounded(RentalIds, MaintenanceIds)

AuthUpdateUser ==
  \E token \in AuthTokens : UpdateUserRoute(token) /\ Bounded(RentalIds, MaintenanceIds)

AuthCreateRental ==
  \E token \in AuthTokens : CreateRentalRoute(token) /\ Bounded(RentalIds, MaintenanceIds)

AuthCreateMaintenance ==
  \E token \in AuthTokens : CreateMaintenanceRoute(token) /\ Bounded(RentalIds, MaintenanceIds)


NextAuth ==
  \/ AuthCreateVehicle
  \/ AuthUpdateVehicle
  \/ AuthUpdateMileage
  \/ AuthDeleteVehicle
  \/ AuthRegister
  \/ AuthGetUsers
  \/ AuthUpdateUser
  \/ AuthCreateRental
  \/ AuthCreateMaintenance

SpecAuth == Init /\ [][NextAuth]_vars

----------------------------------------------------------------------------
(* Properties of SpecAuth *)

\* the user a token was signed for
TokenUser(token) == (CHOOSE t \in token : TRUE).userId

IsActiveUser(u) == u \in DOMAIN users /\ users[u].is_active

\* the routes guarded by requireRole('admin', 'gestor_flota')
FleetRoutes(token) ==
  \/ CreateVehicleRoute(token)
  \/ UpdateVehicleRoute(token)
  \/ UpdateMileageRoute(token)
  \/ DeleteVehicleRoute(token)

\* the routes guarded by requireAdmin
AdminRoutes(token) ==
  \/ RegisterRoute(token)
  \/ GetUsersRoute(token)
  \/ UpdateUserRoute(token)

\* C21: a request with a signed, unexpired token gets past authenticateToken
\* only while the token's user exists and is active; while the user is
\* inactive (after updateUser has set is_active to false) every request with
\* the token is answered 401 and changes nothing.
C21_InactiveUserIsRejected ==
  [][\A token \in IssuedTokens :
       \/ IF IsActiveUser(TokenUser(token))
          THEN response'.op # "authenticateToken"
          ELSE /\ response'.op = "authenticateToken"
               /\ response'.code = 401
               /\ UNCHANGED Everything
       \/ ~(FleetRoutes(token) \/ AdminRoutes(token)
              \/ CreateRentalRoute(token) \/ CreateMaintenanceRoute(token))]_vars

\* a request has just been answered 401 because its user is inactive
C21_Witness ==
  /\ response.op = "authenticateToken"
  /\ response.code = 401
  /\ response.message = "Usuario no valido o inactivo"
  /\ \E u \in DOMAIN users : ~users[u].is_active

\* C22: on the vehicle routes (allow-list admin, gestor_flota) and on the
\* registration and user administration routes (allow-list admin) a request
\* of an active user whose role is not in the list is answered 403 by
\* requireRole and changes nothing.
C22_RoleOutsideAllowListIsRefused ==
  [][\A token \in IssuedTokens :
       LET u == TokenUser(token)
           refused == /\ response'.op = "requireRole"
                      /\ response'.code = 403
                      /\ UNCHANGED Everything
       IN \/ refused
          \/ ~IsActiveUser(u)
          \/ /\ users[u].role \in FleetRoles \/ ~FleetRoutes(token)
             /\ users[u].role = "admin" \/ ~AdminRoutes(token)]_vars

\* requireRole has just refused a request
C22_Witness ==
  /\ response.op = "requireRole"
  /\ response.code = 403

\* C23: a createRental or createMaintenance request of an active user whose
\* role is 'cliente' creates no record.
C23_CustomerCreatesNoRecord ==
  [][\A token \in IssuedTokens :
       LET u == TokenUser(token)
       IN (/\ IsActiveUser(u)
           /\ users[u].role = "cliente"
           /\ CreateRentalRoute(token) \/ CreateMaintenanceRoute(token))
          => (rentals' = rentals /\ maintenances' = maintenances)]_vars

====
